---- MODULE Spec2Model ----
(***************************************************************************)
(* BundleAllocatorApp of src/src/App.tsx: the text -> record pipeline      *)
(* (processInput, run from a 300 ms timer) and the spreadsheet export      *)
(* (exportToExcel, suspended once at workbook.xlsx.writeBuffer()).         *)
(*                                                                         *)
(* A JavaScript string is a sequence of one-character strings, so that     *)
(* split, trim, replace, parseFloat and the regular expressions are        *)
(* computed character by character.  A JavaScript number is a record       *)
(* [kind, neg, mant, exp]: NaN, an infinity, or the double named by the    *)
(* decimal mant * 10^exp (mant without trailing zeros).                    *)
(***************************************************************************)
EXTENDS Integers, Sequences, FiniteSets, TLC

(***************************************************************************)
(* Characters                                                              *)
(***************************************************************************)
DecimalDigits == {"0", "1", "2", "3", "4", "5", "6", "7", "8", "9"}

DigitVal(c) ==
  CASE c = "0" -> 0 [] c = "1" -> 1 [] c = "2" -> 2 [] c = "3" -> 3
    [] c = "4" -> 4 [] c = "5" -> 5 [] c = "6" -> 6 [] c = "7" -> 7
    [] c = "8" -> 8 [] c = "9" -> 9

\* the characters of the regular expression class \s (and of trim) that
\* the inputs use
WhiteSpace == {" ", "\t", "\n", "\r"}

(***************************************************************************)
(* String.prototype.trim                                                   *)
(***************************************************************************)
RECURSIVE TrimStart(_)
TrimStart(s) ==
  IF s # <<>> /\ Head(s) \in WhiteSpace THEN TrimStart(Tail(s)) ELSE s

RECURSIVE TrimEnd(_)
TrimEnd(s) ==
  IF s # <<>> /\ s[Len(s)] \in WhiteSpace
  THEN TrimEnd(SubSeq(s, 1, Len(s) - 1))
  ELSE s

Trim(s) == TrimEnd(TrimStart(s))

(***************************************************************************)
(* text.split(/\r?\n/): a line feed, or a carriage return directly         *)
(* followed by a line feed, ends a piece; a lone carriage return does not. *)
(***************************************************************************)
\* a split that takes only a carriage return followed by a line feed for
\* the end of a line
RECURSIVE SplitOnCRLFFrom(_, _, _)
SplitOnCRLFFrom(text, i, cur) ==
  IF i > Len(text) THEN <<cur>>
  ELSE IF text[i] = "\r" /\ i < Len(text) /\ text[i + 1] = "\n"
       THEN <<cur>> \o SplitOnCRLFFrom(text, i + 2, <<>>)
  ELSE SplitOnCRLFFrom(text, i + 1, Append(cur, text[i]))

RECURSIVE SplitLinesFrom(_, _, _)
SplitLinesFrom(text, i, cur) ==
  IF i > Len(text) THEN <<cur>>
  ELSE IF text[i] = "\n"
       THEN <<cur>> \o SplitLinesFrom(text, i + 1, <<>>)
  ELSE IF text[i] = "\r" /\ i < Len(text) /\ text[i + 1] = "\n"
       THEN <<cur>> \o SplitLinesFrom(text, i + 2, <<>>)
  ELSE SplitLinesFrom(text, i + 1, Append(cur, text[i]))

SplitLines(text) == SplitLinesFrom(text, 1, <<>>)

NonEmptyLine(line) == line # <<>>

\* const lines = text.split(/\r?\n/).map(trim).filter(line => line !== "")
NormalizeLines(text) ==
  LET raw == SplitLines(text)
  IN  SelectSeq([i \in 1..Len(raw) |-> Trim(raw[i])], NonEmptyLine)

(***************************************************************************)
(* line.replace(/\./g, " ")                                                *)
(***************************************************************************)
KeepPeriods(line) == line

ReplacePeriods(line) ==
  [i \in 1..Len(line) |-> IF line[i] = "." THEN " " ELSE line[i]]

(***************************************************************************)
(* cleanedLine.split(/[\s-]+/): every maximal run of delimiter characters  *)
(* separates two pieces; a run at the start or the end of the string       *)
(* leaves an empty piece there, and the empty string splits into [""].     *)
(***************************************************************************)
TokenDelimitersWhitespaceOnly == WhiteSpace

TokenDelimiters == WhiteSpace \cup {"-"}

RECURSIVE SkipDelimiters(_, _)
SkipDelimiters(s, i) ==
  IF i <= Len(s) /\ s[i] \in TokenDelimiters
  THEN SkipDelimiters(s, i + 1)
  ELSE i

RECURSIVE SplitTokensFrom(_, _, _)
SplitTokensFrom(s, i, cur) ==
  IF i > Len(s) THEN <<cur>>
  ELSE IF s[i] \in TokenDelimiters
       THEN <<cur>> \o SplitTokensFrom(s, SkipDelimiters(s, i), <<>>)
  ELSE SplitTokensFrom(s, i + 1, Append(cur, s[i]))

SplitTokens(s) == SplitTokensFrom(s, 1, <<>>)

(***************************************************************************)
(* allocRaw.replace(/gb$/i, "")                                            *)
(***************************************************************************)
StripGbSuffix(tok) ==
  IF Len(tok) >= 2 /\ tok[Len(tok) - 1] \in {"g", "G"}
                   /\ tok[Len(tok)] \in {"b", "B"}
  THEN SubSeq(tok, 1, Len(tok) - 2)
  ELSE tok

(***************************************************************************)
(* Numbers                                                                 *)
(***************************************************************************)
NaN == [kind |-> "nan", neg |-> FALSE, mant |-> 0, exp |-> 0]

Infinite(neg) == [kind |-> "inf", neg |-> neg, mant |-> 0, exp |-> 0]

RECURSIVE Pow10(_)
Pow10(n) == IF n <= 0 THEN 1 ELSE 10 * Pow10(n - 1)

RECURSIVE NumDigits(_)
NumDigits(m) == IF m < 10 THEN 1 ELSE 1 + NumDigits(m \div 10)

RECURSIVE TrailingZeros(_)
TrailingZeros(m) ==
  IF m = 0 \/ m % 10 # 0 THEN 0 ELSE 1 + TrailingZeros(m \div 10)

\* the first nine significant digits of m
LeadingNine(m) ==
  LET d == NumDigits(m)
  IN  IF d <= 9 THEN m * Pow10(9 - d) ELSE m \div Pow10(d - 9)

\* Number.MAX_VALUE is 1.7976931348623157e308 and the smallest positive
\* double is 4.9e-324
DoubleRange ==
  [maxLeadingNine |-> 179769313, maxExponent |-> 308, minExponent |-> -324]

\* the double nearest to (-1)^neg * m * 10^e: an infinity above
\* Number.MAX_VALUE, zero below the smallest positive double
Double(neg, m, e) ==
  LET z == TrailingZeros(m)
      mant == m \div Pow10(z)
      exp == e + z
      magnitude == NumDigits(mant) - 1 + exp
  IN  IF m = 0 THEN [kind |-> "fin", neg |-> neg, mant |-> 0, exp |-> 0]
      ELSE IF magnitude > DoubleRange.maxExponent
              \/ (magnitude = DoubleRange.maxExponent
                  /\ LeadingNine(mant) > DoubleRange.maxLeadingNine)
           THEN Infinite(neg)
      ELSE IF magnitude < DoubleRange.minExponent
           THEN [kind |-> "fin", neg |-> neg, mant |-> 0, exp |-> 0]
      ELSE [kind |-> "fin", neg |-> neg, mant |-> mant, exp |-> exp]

isNaN(x) == x.kind = "nan"

\* x * 1000
Times1000(x) ==
  IF x.kind = "fin" THEN Double(x.neg, x.mant * 1000, x.exp) ELSE x

\* x * 1024
Times1024(x) ==
  IF x.kind = "fin" THEN Double(x.neg, x.mant * 1024, x.exp) ELSE x

(***************************************************************************)
(* parseFloat: skips leading white space, then reads the longest prefix    *)
(* that is a decimal literal (sign, "Infinity" or digits with an optional  *)
(* fraction and an optional exponent); NaN when there is none.             *)
(***************************************************************************)
RECURSIVE DigitRunEnd(_, _)
DigitRunEnd(s, i) ==
  IF i <= Len(s) /\ s[i] \in DecimalDigits THEN DigitRunEnd(s, i + 1) ELSE i

RECURSIVE DigitsToNat(_)
DigitsToNat(ds) ==
  IF ds = <<>> THEN 0
  ELSE 10 * DigitsToNat(SubSeq(ds, 1, Len(ds) - 1)) + DigitVal(ds[Len(ds)])

InfinityLiteral == <<"I", "n", "f", "i", "n", "i", "t", "y">>

parseFloat(str) ==
  LET s == TrimStart(str)
      hasSign == s # <<>> /\ s[1] \in {"+", "-"}
      neg == hasSign /\ s[1] = "-"
      p == IF hasSign THEN 2 ELSE 1
      isInfinity == Len(s) >= p + 7 /\ SubSeq(s, p, p + 7) = InfinityLiteral
      intEnd == DigitRunEnd(s, p)
      hasDot == intEnd <= Len(s) /\ s[intEnd] = "."
      fracEnd == IF hasDot THEN DigitRunEnd(s, intEnd + 1) ELSE intEnd
      intDigits == SubSeq(s, p, intEnd - 1)
      fracDigits == IF hasDot THEN SubSeq(s, intEnd + 1, fracEnd - 1) ELSE <<>>
      hasE == fracEnd <= Len(s) /\ s[fracEnd] \in {"e", "E"}
      expSigned == hasE /\ fracEnd + 1 <= Len(s)
                        /\ s[fracEnd + 1] \in {"+", "-"}
      expNeg == expSigned /\ s[fracEnd + 1] = "-"
      expStart == IF expSigned THEN fracEnd + 2 ELSE fracEnd + 1
      expEnd == IF hasE THEN DigitRunEnd(s, expStart) ELSE expStart
      expAbs == IF hasE /\ expEnd > expStart
                THEN DigitsToNat(SubSeq(s, expStart, expEnd - 1))
                ELSE 0
      exponent == IF expNeg THEN 0 - expAbs ELSE expAbs
  IN  IF isInfinity THEN Infinite(neg)
      ELSE IF intDigits = <<>> /\ fracDigits = <<>> THEN NaN
      ELSE Double(neg, DigitsToNat(intDigits \o fracDigits),
                  exponent - Len(fracDigits))

(***************************************************************************)
(* validateNumber: /^0\d{9}$/.test(num)                                    *)
(***************************************************************************)
\* matches \d{n} from position i on and then the end of the input
RECURSIVE MatchDigitsThenEnd(_, _, _)
MatchDigitsThenEnd(num, i, n) ==
  IF n = 0 THEN i = Len(num) + 1
  ELSE /\ i <= Len(num)
       /\ num[i] \in DecimalDigits
       /\ MatchDigitsThenEnd(num, i + 1, n - 1)

\* the same without the $ anchor
RECURSIVE MatchDigits(_, _, _)
MatchDigits(num, i, n) ==
  IF n = 0 THEN TRUE
  ELSE /\ i <= Len(num)
       /\ num[i] \in DecimalDigits
       /\ MatchDigits(num, i + 1, n - 1)

validateNumberUnanchored(num) ==
  /\ Len(num) >= 1
  /\ num[1] = "0"
  /\ MatchDigits(num, 2, 9)

validateNumber(num) ==
  /\ Len(num) >= 1
  /\ num[1] = "0"
  /\ MatchDigitsThenEnd(num, 2, 9)

(***************************************************************************)
(* processInput, the timer callback: tokenizer, first and second pass      *)
(***************************************************************************)
\* const cleanedLine = line.replace(/\./g, " ").trim();
\* const parts = cleanedLine.split(/[\s-]+/);
SplitParts(line) == SplitTokens(Trim(ReplacePeriods(line)))

\* allocRaw = parts[1].replace(/gb$/i, "").trim(); parseFloat(allocRaw)
\* (parts[1] of the source is parts[2] here: sequences start at 1)
ParseAllocation(parts) == parseFloat(Trim(StripGbSuffix(parts[2])))

\* duplicates.add(phoneRaw) on a Set, which keeps insertion order
SetAdd(list, x) ==
  IF \E i \in 1..Len(list) : list[i] = x THEN list ELSE Append(list, x)

\* First pass that counts every line of two or more tokens
RECURSIVE FirstPassCountingDropped(_, _, _)
FirstPassCountingDropped(lines, phoneNumbers, duplicates) ==
  IF lines = <<>>
  THEN [phoneNumbers |-> phoneNumbers, duplicates |-> duplicates]
  ELSE LET parts == SplitParts(Head(lines))
       IN  IF Len(parts) >= 2
           THEN IF parts[1] \in phoneNumbers
                THEN FirstPassCountingDropped(Tail(lines), phoneNumbers,
                                              SetAdd(duplicates, parts[1]))
                ELSE FirstPassCountingDropped(Tail(lines),
                                              phoneNumbers \cup {parts[1]},
                                              duplicates)
           ELSE FirstPassCountingDropped(Tail(lines), phoneNumbers, duplicates)

\* First pass: collect all phone numbers and identify duplicates
RECURSIVE FirstPass(_, _, _)
FirstPass(lines, phoneNumbers, duplicates) ==
  IF lines = <<>>
  THEN [phoneNumbers |-> phoneNumbers, duplicates |-> duplicates]
  ELSE LET parts == SplitParts(Head(lines))
       IN  IF Len(parts) >= 2 /\ ~isNaN(ParseAllocation(parts))
           THEN IF parts[1] \in phoneNumbers
                THEN FirstPass(Tail(lines), phoneNumbers,
                               SetAdd(duplicates, parts[1]))
                ELSE FirstPass(Tail(lines), phoneNumbers \cup {parts[1]},
                               duplicates)
           ELSE FirstPass(Tail(lines), phoneNumbers, duplicates)

PhoneEntry(number, allocationGB, isValid, isDuplicate) ==
  [number |-> number, allocationGB |-> allocationGB,
   isValid |-> isValid, isDuplicate |-> isDuplicate]

\* Second pass that puts each new entry in front of the earlier ones
RECURSIVE SecondPassUnshift(_, _, _)
SecondPassUnshift(lines, duplicates, parsed) ==
  IF lines = <<>> THEN parsed
  ELSE LET parts == SplitParts(Head(lines))
           allocGB == ParseAllocation(parts)
       IN  IF Len(parts) >= 2 /\ ~isNaN(allocGB)
           THEN SecondPassUnshift(Tail(lines), duplicates,
                  <<PhoneEntry(parts[1], allocGB, validateNumber(parts[1]),
                               \E i \in 1..Len(duplicates) :
                                  duplicates[i] = parts[1])>> \o parsed)
           ELSE SecondPassUnshift(Tail(lines), duplicates, parsed)

\* Second pass: create entries with duplicate flag
RECURSIVE SecondPass(_, _, _)
SecondPass(lines, duplicates, parsed) ==
  IF lines = <<>> THEN parsed
  ELSE LET parts == SplitParts(Head(lines))
           allocGB == ParseAllocation(parts)
       IN  IF Len(parts) >= 2 /\ ~isNaN(allocGB)
           THEN SecondPass(Tail(lines), duplicates,
                  Append(parsed,
                    PhoneEntry(parts[1], allocGB, validateNumber(parts[1]),
                               \E i \in 1..Len(duplicates) :
                                  duplicates[i] = parts[1])))
           ELSE SecondPass(Tail(lines), duplicates, parsed)

\* a single pass that flags an identifier only where it was seen before
RECURSIVE SinglePass(_, _, _, _)
SinglePass(lines, phoneNumbers, duplicates, parsed) ==
  IF lines = <<>> THEN [parsed |-> parsed, duplicates |-> duplicates]
  ELSE LET parts == SplitParts(Head(lines))
           allocGB == ParseAllocation(parts)
       IN  IF Len(parts) >= 2 /\ ~isNaN(allocGB)
           THEN SinglePass(Tail(lines), phoneNumbers \cup {parts[1]},
                  IF parts[1] \in phoneNumbers
                  THEN SetAdd(duplicates, parts[1]) ELSE duplicates,
                  Append(parsed,
                    PhoneEntry(parts[1], allocGB, validateNumber(parts[1]),
                               parts[1] \in phoneNumbers)))
           ELSE SinglePass(Tail(lines), phoneNumbers, duplicates, parsed)

ProcessTextSinglePass(text) == SinglePass(NormalizeLines(text), {}, <<>>, <<>>)

\* what one run of the timer callback computes from its text
ProcessText(text) ==
  LET lines == NormalizeLines(text)
      first == FirstPass(lines, {}, <<>>)
  IN  [parsed |-> SecondPass(lines, first.duplicates, <<>>),
       duplicates |-> first.duplicates]

(***************************************************************************)
(* exportToExcel: the workbook built before the writeBuffer suspension     *)
(***************************************************************************)
HeaderRow ==
  <<"Beneficiary Msisdn", "Beneficiary Name", "Voice(Minutes)",
    "Data (MB) (1024MB = 1GB)", "Sms(Unit)">>

MinColumnWidth == 10
ColumnPadding == 2
TotalsRowOffset == 5
MBPerGB == 1024

\* the length of Number.prototype.toString of x: plain digits while the
\* decimal point lies within 21 places, exponent notation beyond
NumberTextLength(x) ==
  IF x.kind = "nan" THEN 3
  ELSE IF x.kind = "inf" THEN (IF x.neg THEN 9 ELSE 8)
  ELSE IF x.mant = 0 THEN 1
  ELSE LET k == NumDigits(x.mant)
           n == k + x.exp
           sign == IF x.neg THEN 1 ELSE 0
           e == IF n - 1 < 0 THEN 1 - n ELSE n - 1
       IN  sign + (IF k <= n /\ n <= 21 THEN n
                   ELSE IF 0 < n /\ n <= 21 THEN k + 1
                   ELSE IF -6 < n /\ n <= 0 THEN 2 - n + k
                   ELSE IF k = 1 THEN 3 + NumDigits(e)
                   ELSE k + 3 + NumDigits(e))

\* a number cell is falsy when it is 0 or NaN
NumberIsFalsy(x) == x.kind = "nan" \/ (x.kind = "fin" /\ x.mant = 0)

\* cell.value ? cell.value.toString() : "" and its length, for the cell of
\* row r and column c of the sheet
CellTextLength(rows, r, c) ==
  IF r = 1 THEN Len(rows[1][c])
  ELSE IF c \in {1, 2} THEN Len(rows[r][c])
  ELSE IF c = 4
       THEN (IF NumberIsFalsy(rows[r][4]) THEN 0
             ELSE NumberTextLength(rows[r][4]))
  ELSE (IF rows[r][c] = 0 THEN 0 ELSE NumDigits(rows[r][c]))

RECURSIVE MaxTextLength(_, _, _, _)
MaxTextLength(rows, r, c, maxLength) ==
  IF r > Len(rows) THEN maxLength
  ELSE MaxTextLength(rows, r + 1, c,
         IF CellTextLength(rows, r, c) > maxLength
         THEN CellTextLength(rows, r, c) ELSE maxLength)

\* worksheet.addRow([number, "", 0, mb, 0]) with mb = allocationGB * 1000
DataRowTimes1000(entry) ==
  <<entry.number, <<>>, 0, Times1000(entry.allocationGB), 0>>

\* worksheet.addRow([number, "", 0, mb, 0]) with mb = allocationGB * 1024
DataRow(entry) ==
  <<entry.number, <<>>, 0, Times1024(entry.allocationGB), 0>>

\* the styling of cell 1 of a data row
RowStyle(entry) ==
  [font |-> IF ~entry.isValid THEN "red-bold" ELSE "default",
   fill |-> IF entry.isDuplicate THEN "yellow" ELSE "none"]

ValidEntry(entry) == entry.isValid

\* the rows of a sheet that leaves the invalid entries out
SheetRowsValidOnly(exported) ==
  LET kept == SelectSeq(exported, ValidEntry)
  IN  <<HeaderRow>> \o [i \in 1..Len(kept) |-> DataRow(kept[i])]

\* the header row and one data row per entry, in the order of entries
SheetRows(exported) ==
  <<HeaderRow>> \o [i \in 1..Len(exported) |-> DataRow(exported[i])]

\* totals placed 4 rows after the last entry
TotalsFourRowsBelow(lastRowNum) ==
  LET totalRowNum == lastRowNum + TotalsRowOffset - 1
  IN  [sumCell |-> [col |-> "F", row |-> totalRowNum, bold |-> TRUE,
                    formula |-> [fn |-> "SUM", col |-> "D",
                                 first |-> 2, last |-> lastRowNum]],
       gbCell |-> [col |-> "G", row |-> totalRowNum, bold |-> TRUE,
                   formula |-> [refCol |-> "F", refRow |-> totalRowNum,
                                dividedBy |-> MBPerGB]]]

\* Add totals row 5 rows after last entry
Totals(lastRowNum) ==
  LET totalRowNum == lastRowNum + TotalsRowOffset
  IN  [sumCell |-> [col |-> "F", row |-> totalRowNum, bold |-> TRUE,
                    formula |-> [fn |-> "SUM", col |-> "D",
                                 first |-> 2, last |-> lastRowNum]],
       gbCell |-> [col |-> "G", row |-> totalRowNum, bold |-> TRUE,
                   formula |-> [refCol |-> "F", refRow |-> totalRowNum,
                                dividedBy |-> MBPerGB]]]

NoTotals ==
  [sumCell |-> [col |-> "", row |-> 0, bold |-> FALSE,
                formula |-> [fn |-> "", col |-> "", first |-> 0, last |-> 0]],
   gbCell |-> [col |-> "", row |-> 0, bold |-> FALSE,
               formula |-> [refCol |-> "", refRow |-> 0, dividedBy |-> 0]]]

EmptyWorkbook ==
  [rows |-> <<>>, styles |-> <<>>, widths |-> <<>>, totals |-> NoTotals]

\* Set column widths: the five fixed widths 15, 20, 15, 15, 12
ColumnWidthsFixed(rows) == <<15, 20, 15, 15, 12>>

\* Auto-adjust column widths
ColumnWidths(rows) ==
  [c \in 1..5 |-> MaxTextLength(rows, 1, c, MinColumnWidth) + ColumnPadding]

BuildWorkbook(exported) ==
  LET rows == SheetRows(exported)
      \* worksheet.lastRow?.number || entries.length + 1
      lastRowNum == Len(rows)
  IN  [rows |-> rows,
       styles |-> [i \in 1..Len(exported) |-> RowStyle(exported[i])],
       widths |-> ColumnWidths(rows),
       totals |-> Totals(lastRowNum)]

(***************************************************************************)
(* BundleCategorizerApp.parseData                                          *)
(***************************************************************************)
\* rawData.split("\n")
RECURSIVE SplitLineFeedsFrom(_, _, _)
SplitLineFeedsFrom(text, i, cur) ==
  IF i > Len(text) THEN <<cur>>
  ELSE IF text[i] = "\n"
       THEN <<cur>> \o SplitLineFeedsFrom(text, i + 1, <<>>)
  ELSE SplitLineFeedsFrom(text, i + 1, Append(cur, text[i]))

\* a tally that leaves the blank lines in
CategorizerLinesUnfiltered(text) ==
  LET raw == SplitLineFeedsFrom(text, 1, <<>>)
  IN  [i \in 1..Len(raw) |-> Trim(raw[i])]

\* rawData.split("\n").map(trim).filter(line => line.length > 0)
CategorizerLines(text) ==
  LET raw == SplitLineFeedsFrom(text, 1, <<>>)
  IN  SelectSeq([i \in 1..Len(raw) |-> Trim(raw[i])], NonEmptyLine)

IsDecimalDigit(c) == c \in DecimalDigits

\* allocation.replace(/[^0-9]/g, "")
StripNonDigits(allocation) == SelectSeq(allocation, IsDecimalDigit)

Unknown == <<"U", "n", "k", "n", "o", "w", "n">>

\* the bucket key of a line: parts[1] || "", its digits, then " GB" if any
\* digit is left and "Unknown" if none
BucketLabel(line) ==
  LET parts == SplitTokens(line)
      allocation == IF Len(parts) >= 2 THEN parts[2] ELSE <<>>
      digits == StripNonDigits(allocation)
  IN  IF digits # <<>> THEN digits \o <<" ", "G", "B">> ELSE Unknown

\* a tally that puts a label seen for the first time in front of the others
CountLabelInFront(allocationSummary, allocation) ==
  IF \E i \in 1..Len(allocationSummary) :
       allocationSummary[i].allocation = allocation
  THEN [i \in 1..Len(allocationSummary) |->
          IF allocationSummary[i].allocation = allocation
          THEN [allocationSummary[i] EXCEPT !.count = @ + 1]
          ELSE allocationSummary[i]]
  ELSE <<[allocation |-> allocation, count |-> 1]>> \o allocationSummary

\* allocationSummary[allocation] = (allocationSummary[allocation] || 0) + 1
\* on an object whose keys keep the order in which they were first set
CountLabel(allocationSummary, allocation) ==
  IF \E i \in 1..Len(allocationSummary) :
       allocationSummary[i].allocation = allocation
  THEN [i \in 1..Len(allocationSummary) |->
          IF allocationSummary[i].allocation = allocation
          THEN [allocationSummary[i] EXCEPT !.count = @ + 1]
          ELSE allocationSummary[i]]
  ELSE Append(allocationSummary, [allocation |-> allocation, count |-> 1])

\* lines.forEach(...) and Object.entries(allocationSummary).map(...)
RECURSIVE SummaryArray(_, _)
SummaryArray(lines, allocationSummary) ==
  IF lines = <<>> THEN allocationSummary
  ELSE SummaryArray(Tail(lines),
                    CountLabel(allocationSummary, BucketLabel(Head(lines))))

(***************************************************************************)
(* Inputs                                                                  *)
(***************************************************************************)
IdA == <<"0", "2", "0", "1", "2", "3", "4", "5", "6", "7">>
IdB == <<"0", "5", "5", "4", "7", "3", "9", "0", "3", "3">>
IdShort == <<"5", "5", "4", "7", "3", "9", "0", "3", "3">>
IdLong == <<"0", "5", "5", "4", "7", "3", "9", "0", "3", "3", "0">>

\* the lines a pasted text is made of
LinePool ==
  { IdA \o <<" ", "1", "0", "G", "B">>,
    IdB \o <<".", "2", "0", "g", "b">>,
    IdA \o <<" ", "-", "5", "G", "B">>,
    IdShort \o <<" ", "3">>,
    IdLong \o <<"-", "7">>,
    IdA,
    IdB \o <<" ", "G", "B">>,
    IdB \o <<" ", "I", "n", "f", "i", "n", "i", "t", "y">>,
    IdB \o <<" ", "1", "e", "3", "0", "6">>,
    <<"-", "0", "1", "2", " ", "3", "G", "B">>,
    <<" ">> }

LineEndings == { <<"\n">>, <<"\r", "\n">> }

\* the most lines of a pasted text
MaxLines == 3

RECURSIVE JoinLines(_, _)
JoinLines(ls, ending) ==
  IF ls = <<>> THEN <<>>
  ELSE IF Len(ls) = 1 THEN ls[1]
  ELSE ls[1] \o ending \o JoinLines(Tail(ls), ending)

PastedTexts ==
  { JoinLines(ls, ending) :
      ls \in UNION { [1..n -> LinePool] : n \in 0..MaxLines },
      ending \in LineEndings }

\* the texts typed into the textarea during a session
TypedTexts ==
  { <<>>,
    IdA \o <<" ", "1", "0", "G", "B", "\n">> \o IdB \o <<" ", "2", "0", "G", "B",
      "\n">> \o IdA \o <<" ", "5", "G", "B">> }

\* the files that can be dropped, and their contents
Files == {"f1", "f2"}

FileText(f) ==
  IF f = "f1"
  THEN IdA \o <<" ", "2", ".", "5", "G", "B", "\r", "\n">> \o IdA
  ELSE IdA \o <<" ", "2", "0", "G", "B", "\n">>
         \o IdLong \o IdA \o <<" ", "7", "G", "B">>

\* the most timer callbacks pending at once
MaxTimers == 2

\* the lines pasted into the categorizer: allocations after a blank and after
\* a hyphen, one with a decimal point, a line of one token, a second token
\* without digits, and a blank line
CategorizerLinePool ==
  { IdA \o <<" ", "1", "0", "G", "B">>,
    IdB \o <<"-", "1", "0", "g", "b">>,
    IdA \o <<" ", "2", ".", "5", "G", "B">>,
    IdB,
    IdShort \o <<"\t", "G", "B">>,
    <<" ">> }

CategorizerTexts ==
  { JoinLines(ls, ending) :
      ls \in UNION { [1..n -> CategorizerLinePool] : n \in 0..MaxLines },
      ending \in LineEndings }

(***************************************************************************)
(* State                                                                   *)
(***************************************************************************)
VARIABLES
  inputText,    \* allocatorInputText: the content of the textarea
  entries,      \* allocatorEntries: the record set
  isProcessing, \* the "Processing..." overlay
  isExporting,  \* disables the export button
  timers,       \* the texts of the pending setTimeout callbacks, oldest first
  reads,        \* the dropped files whose FileReader has not finished
  exportRun,    \* the exportToExcel call suspended at writeBuffer, if any
  alerts,       \* the window.alert most recently shown
  download,     \* the file most recently handed to the browser
  rawData,      \* categorizerRawData: the textarea of the categorizer
  summary,      \* categorizerSummary: the buckets of the table
  chartData     \* categorizerChartData: the buckets of the charts

vars ==
  <<inputText, entries, isProcessing, isExporting, timers, reads, exportRun,
    alerts, download, rawData, summary, chartData>>

\* the state of the allocator tab, and the state of the categorizer tab
allocatorState ==
  <<inputText, entries, isProcessing, isExporting, timers, reads, exportRun,
    alerts, download>>

categorizerState == <<rawData, summary, chartData>>

NoAlert ==
  [kind |-> "none", duplicateList |-> <<>>,
   total |-> 0, valid |-> 0, duplicate |-> 0, invalid |-> 0]

DuplicateAlert(duplicates) == [NoAlert EXCEPT !.kind = "duplicates",
                                              !.duplicateList = duplicates]

NoDataAlert == [NoAlert EXCEPT !.kind = "no-data"]

ErrorAlert == [NoAlert EXCEPT !.kind = "error"]

\* a count of the valid entries that takes the duplicates in
IsValidWhetherDuplicate(entry) == entry.isValid

IsValidNotDuplicate(entry) == entry.isValid /\ ~entry.isDuplicate
IsDuplicate(entry) == entry.isDuplicate
IsInvalid(entry) == ~entry.isValid

\* the counts of the success message (its total in GB and MB is left out)
SuccessAlert(exported) ==
  [NoAlert EXCEPT !.kind = "success",
                  !.total = Len(exported),
                  !.valid = Len(SelectSeq(exported, IsValidNotDuplicate)),
                  !.duplicate = Len(SelectSeq(exported, IsDuplicate)),
                  !.invalid = Len(SelectSeq(exported, IsInvalid))]

IdleExport == [pc |-> "idle", entries |-> <<>>, workbook |-> EmptyWorkbook]

NoDownload == [name |-> "", workbook |-> EmptyWorkbook]

Init ==
  /\ inputText = <<>>
  /\ entries = <<>>
  /\ isProcessing = FALSE
  /\ isExporting = FALSE
  /\ timers = <<>>
  /\ reads = {}
  /\ exportRun = IdleExport
  /\ alerts = NoAlert
  /\ download = NoDownload
  /\ rawData = <<>>
  /\ summary = <<>>
  /\ chartData = <<>>

(***************************************************************************)
(* Operations                                                              *)
(***************************************************************************)
\* processInput(text) up to setTimeout: the textarea's onChange
processInput(text) ==
  /\ Len(timers) < MaxTimers
  /\ inputText' = text
  /\ isProcessing' = TRUE
  /\ timers' = Append(timers, text)
  /\ UNCHANGED <<entries, isExporting, reads, exportRun, alerts, download>>
  /\ UNCHANGED categorizerState

\* a timer callback that gives up on a text with a line it cannot parse
TimerFiresStrict ==
  /\ timers # <<>>
  /\ LET text == Head(timers)
         run == ProcessText(text)
     IN  IF Len(run.parsed) < Len(NormalizeLines(text))
         THEN /\ alerts' = ErrorAlert
              /\ UNCHANGED <<entries, isProcessing>>
         ELSE /\ alerts' = IF run.duplicates # <<>>
                           THEN DuplicateAlert(run.duplicates)
                           ELSE alerts
              /\ entries' = run.parsed
              /\ isProcessing' = FALSE
  /\ timers' = Tail(timers)
  /\ UNCHANGED <<inputText, isExporting, reads, exportRun, download>>
  /\ UNCHANGED categorizerState

\* a timer callback that raises no duplicate alert
TimerFiresSilent ==
  /\ timers # <<>>
  /\ entries' = ProcessText(Head(timers)).parsed
  /\ isProcessing' = FALSE
  /\ timers' = Tail(timers)
  /\ UNCHANGED <<inputText, isExporting, reads, exportRun, download, alerts>>
  /\ UNCHANGED categorizerState

\* a timer callback that adds its records to the ones entries holds
TimerFiresAccumulating ==
  /\ timers # <<>>
  /\ LET run == ProcessText(Head(timers))
     IN  /\ alerts' = IF run.duplicates # <<>>
                      THEN DuplicateAlert(run.duplicates)
                      ELSE alerts
         /\ entries' = entries \o run.parsed
  /\ isProcessing' = FALSE
  /\ timers' = Tail(timers)
  /\ UNCHANGED <<inputText, isExporting, reads, exportRun, download>>
  /\ UNCHANGED categorizerState

\* the callback of setTimeout(..., 300); equal delays fire oldest first
TimerFires ==
  /\ timers # <<>>
  /\ LET run == ProcessText(Head(timers))
     IN  /\ alerts' = IF run.duplicates # <<>>
                      THEN DuplicateAlert(run.duplicates)
                      ELSE alerts
         /\ entries' = run.parsed
  /\ isProcessing' = FALSE
  /\ timers' = Tail(timers)
  /\ UNCHANGED <<inputText, isExporting, reads, exportRun, download>>
  /\ UNCHANGED categorizerState

\* onDrop(acceptedFiles): one FileReader per file
onDrop(acceptedFiles) ==
  /\ acceptedFiles # {}
  /\ acceptedFiles \cap reads = {}
  /\ reads' = reads \cup acceptedFiles
  /\ UNCHANGED <<inputText, entries, isProcessing, isExporting, timers,
                 exportRun, alerts, download>>
  /\ UNCHANGED categorizerState

\* reader.onload that adds the file's text to the text of the textarea
ReaderLoadsAppending(f) ==
  /\ f \in reads
  /\ Len(timers) < MaxTimers
  /\ reads' = reads \ {f}
  /\ inputText' = inputText \o <<"\n">> \o FileText(f)
  /\ isProcessing' = TRUE
  /\ timers' = Append(timers, inputText \o <<"\n">> \o FileText(f))
  /\ UNCHANGED <<entries, isExporting, exportRun, alerts, download>>
  /\ UNCHANGED categorizerState

\* reader.onload of one file: processInput(reader.result)
ReaderLoads(f) ==
  /\ f \in reads
  /\ Len(timers) < MaxTimers
  /\ reads' = reads \ {f}
  /\ inputText' = FileText(f)
  /\ isProcessing' = TRUE
  /\ timers' = Append(timers, FileText(f))
  /\ UNCHANGED <<entries, isExporting, exportRun, alerts, download>>
  /\ UNCHANGED categorizerState

\* exportToExcel behind a button that is never disabled
exportToExcelReentrant ==
  /\ IF entries = <<>>
     THEN /\ alerts' = NoDataAlert
          /\ UNCHANGED <<isExporting, exportRun>>
     ELSE /\ isExporting' = TRUE
          /\ exportRun' = [pc |-> "writeBuffer", entries |-> entries,
                           workbook |-> BuildWorkbook(entries)]
          /\ UNCHANGED alerts
  /\ UNCHANGED <<inputText, entries, isProcessing, timers, reads, download>>
  /\ UNCHANGED categorizerState

\* exportToExcel without the entries.length === 0 check
exportToExcelUnchecked ==
  /\ ~isExporting
  /\ isExporting' = TRUE
  /\ exportRun' = [pc |-> "writeBuffer", entries |-> entries,
                   workbook |-> BuildWorkbook(entries)]
  /\ UNCHANGED <<inputText, entries, isProcessing, timers, reads, download,
                 alerts>>
  /\ UNCHANGED categorizerState

\* exportToExcel up to the await; the button is disabled while isExporting
exportToExcel ==
  /\ ~isExporting
  /\ IF entries = <<>>
     THEN /\ alerts' = NoDataAlert
          /\ UNCHANGED <<isExporting, exportRun>>
     ELSE /\ isExporting' = TRUE
          /\ exportRun' = [pc |-> "writeBuffer", entries |-> entries,
                           workbook |-> BuildWorkbook(entries)]
          /\ UNCHANGED alerts
  /\ UNCHANGED <<inputText, entries, isProcessing, timers, reads, download>>
  /\ UNCHANGED categorizerState

\* writeBuffer resolves, without the clearing after a successful export
WriteBufferResolvesKeeping ==
  /\ exportRun.pc = "writeBuffer"
  /\ download' = [name |-> "UploadTemplate.xlsx",
                  workbook |-> exportRun.workbook]
  /\ alerts' = SuccessAlert(exportRun.entries)
  /\ isExporting' = FALSE
  /\ exportRun' = IdleExport
  /\ UNCHANGED <<inputText, entries, isProcessing, timers, reads>>
  /\ UNCHANGED categorizerState

\* writeBuffer resolves: download, success message, clear, finally
WriteBufferResolves ==
  /\ exportRun.pc = "writeBuffer"
  /\ download' = [name |-> "UploadTemplate.xlsx",
                  workbook |-> exportRun.workbook]
  /\ alerts' = SuccessAlert(exportRun.entries)
  /\ inputText' = <<>>
  /\ entries' = <<>>
  /\ isExporting' = FALSE
  /\ exportRun' = IdleExport
  /\ UNCHANGED <<isProcessing, timers, reads>>
  /\ UNCHANGED categorizerState

\* a step of the try block before the await throws: setIsExporting(true),
\* catch, finally, all within the one call
ExportThrows ==
  /\ ~isExporting
  /\ entries # <<>>
  /\ alerts' = ErrorAlert
  /\ UNCHANGED <<inputText, entries, isProcessing, isExporting, timers, reads,
                 exportRun, download>>
  /\ UNCHANGED categorizerState

\* writeBuffer rejects, and the failed export clears the data all the same
WriteBufferRejectsClearing ==
  /\ exportRun.pc = "writeBuffer"
  /\ alerts' = ErrorAlert
  /\ inputText' = <<>>
  /\ entries' = <<>>
  /\ isExporting' = FALSE
  /\ exportRun' = IdleExport
  /\ UNCHANGED <<isProcessing, timers, reads, download>>
  /\ UNCHANGED categorizerState

\* writeBuffer rejects: catch, but no finally block resets isExporting
WriteBufferRejectsNoFinally ==
  /\ exportRun.pc = "writeBuffer"
  /\ alerts' = ErrorAlert
  /\ exportRun' = IdleExport
  /\ UNCHANGED <<inputText, entries, isProcessing, isExporting, timers, reads,
                 download>>
  /\ UNCHANGED categorizerState

\* writeBuffer rejects and nothing catches it: no message, as in the
\* exportToExcel that has no try block
WriteBufferRejectsUncaught ==
  /\ exportRun.pc = "writeBuffer"
  /\ isExporting' = FALSE
  /\ exportRun' = IdleExport
  /\ UNCHANGED <<inputText, entries, isProcessing, timers, reads, download,
                 alerts>>
  /\ UNCHANGED categorizerState

\* writeBuffer rejects: catch, finally
WriteBufferRejects ==
  /\ exportRun.pc = "writeBuffer"
  /\ alerts' = ErrorAlert
  /\ isExporting' = FALSE
  /\ exportRun' = IdleExport
  /\ UNCHANGED <<inputText, entries, isProcessing, timers, reads, download>>
  /\ UNCHANGED categorizerState

\* onChange={(e) => setRawData(e.target.value)}
setRawData(text) ==
  /\ rawData' = text
  /\ UNCHANGED <<summary, chartData>>
  /\ UNCHANGED allocatorState

\* the "Process Data" button, disabled while rawData.trim() is empty
parseData ==
  /\ Trim(rawData) # <<>>
  /\ LET summaryArray == SummaryArray(CategorizerLines(rawData), <<>>)
     IN  /\ summary' = summaryArray
         /\ chartData' = summaryArray
  /\ rawData' = <<>>
  /\ UNCHANGED allocatorState

(***************************************************************************)
(* Specifications                                                          *)
(***************************************************************************)
TextareaChanges == \E text \in TypedTexts : processInput(text)

FilesDropped == \E acceptedFiles \in SUBSET Files : onDrop(acceptedFiles)

FileRead == \E f \in Files : ReaderLoads(f)

Next ==
  \/ TextareaChanges
  \/ FilesDropped
  \/ FileRead
  \/ TimerFires
  \/ exportToExcel
  \/ ExportThrows
  \/ WriteBufferResolves
  \/ WriteBufferRejects

\* a session of typing, dropping files and exporting
Spec == Init /\ [][Next]_vars

\* the session in which a pending writeBuffer promise is settled at last,
\* one way or the other
LiveSpec == Spec /\ WF_vars(WriteBufferResolves \/ WriteBufferRejects)

\* one text pasted into the fresh application
TextPasted == Init /\ \E text \in PastedTexts : processInput(text)

PasteNext ==
  \/ TextPasted
  \/ TimerFires
  \/ exportToExcel
  \/ WriteBufferResolves
  \/ WriteBufferRejects

\* a single pasted text, processed and exported
PasteSpec == Init /\ [][PasteNext]_vars

DropNext ==
  \/ FilesDropped
  \/ FileRead
  \/ TimerFires

\* files are dropped, again and again, and nothing else is done
DropSpec == Init /\ [][DropNext]_vars

\* a text is pasted into the empty textarea of the categorizer
RawDataPasted ==
  rawData = <<>> /\ \E text \in CategorizerTexts : setRawData(text)

CategorizerNext ==
  \/ RawDataPasted
  \/ parseData

\* a session on the categorizer tab: paste, process, paste again
CategorizerSpec == Init /\ [][CategorizerNext]_vars

(***************************************************************************)
(* Properties                                                              *)
(***************************************************************************)
\* a step in which the oldest timer callback runs
TimerStep == timers # <<>> /\ timers' = Tail(timers)

\* the line yields a record: two tokens or more, allocation not NaN
ProducesRecord(line) ==
  LET parts == SplitParts(line)
  IN  Len(parts) >= 2 /\ ~isNaN(ParseAllocation(parts))

\* the line has two tokens or more and its allocation is a finite number
ParsesFinite(line) ==
  LET parts == SplitParts(line)
  IN  Len(parts) >= 2 /\ ParseAllocation(parts).kind = "fin"

Identifier(line) == SplitParts(line)[1]

\* the indices of the lines that yield a record
RecordLines(lines) == {k \in 1..Len(lines) : ProducesRecord(lines[k])}

\* the index of the line that yields the i-th record
NthRecordLine(lines, i) ==
  CHOOSE k \in RecordLines(lines) :
    Cardinality({j \in RecordLines(lines) : j < k}) = i - 1

Exporting == exportRun.pc = "writeBuffer"

\* C1: after a processing run the number of records equals the number of
\* normalized lines that have two tokens or more and whose second token,
\* without a trailing "gb", parses to a finite number.
C1_RecordCountIsFiniteLines ==
  [][TimerStep =>
       LET lines == NormalizeLines(Head(timers))
       IN  Len(entries') =
             Cardinality({k \in 1..Len(lines) : ParsesFinite(lines[k])})]_vars

\* C2: a record is flagged isDuplicate exactly when its identifier occurs in
\* two or more record-producing lines of the text, the first occurrence
\* included.
C2_AllOccurrencesFlagged ==
  [][TimerStep =>
       LET lines == NormalizeLines(Head(timers))
       IN  \A i \in 1..Len(entries') :
             entries'[i].isDuplicate <=>
               Cardinality({k \in RecordLines(lines) :
                              Identifier(lines[k]) = entries'[i].number}) >= 2]_vars

\* C2 witness: the records of 0201234567 / 0554739033 / 0201234567, the
\* first and the third flagged and the second not
C2_Witness ==
  /\ Len(entries) = 3
  /\ entries[1].number = IdA /\ entries[1].isDuplicate
  /\ entries[2].number = IdB /\ ~entries[2].isDuplicate
  /\ entries[3].number = IdA /\ entries[3].isDuplicate

\* C3: only record-producing lines count towards duplication: the first
\* pass sees exactly the identifiers of the records, and an identifier with
\* one record is neither in the duplicates set nor flagged, however many
\* dropped lines carry it.
C3_DroppedLinesNotCounted ==
  [][TimerStep =>
       LET lines == NormalizeLines(Head(timers))
           first == FirstPass(lines, {}, <<>>)
       IN  /\ first.phoneNumbers =
                {entries'[i].number : i \in 1..Len(entries')}
           /\ \A i \in 1..Len(entries') :
                (\A j \in 1..Len(entries') :
                    entries'[j].number = entries'[i].number => j = i)
                => /\ ~entries'[i].isDuplicate
                   /\ \A d \in 1..Len(first.duplicates) :
                        first.duplicates[d] # entries'[i].number]_vars

\* C3 witness: one record, not flagged, and a dropped line of two tokens
\* with the same identifier in the processed text
C3_Witness ==
  /\ timers = <<>>
  /\ Len(entries) = 1
  /\ ~entries[1].isDuplicate
  /\ \E k \in 1..Len(NormalizeLines(inputText)) :
       LET line == NormalizeLines(inputText)[k]
       IN  /\ ~ProducesRecord(line)
           /\ Len(SplitParts(line)) >= 2
           /\ Identifier(line) = entries[1].number

\* ten characters, all decimal digits, the first one 0
WellFormedIdentifier(number) ==
  /\ Len(number) = 10
  /\ \A i \in 1..Len(number) : number[i] \in DecimalDigits
  /\ number[1] = "0"

\* C4: in every state, isValid of every record (in entries and in the
\* snapshot being exported) is true exactly when its identifier is ten
\* decimal digits starting with 0.
C4_IsValidIffWellFormed ==
  /\ \A i \in 1..Len(entries) :
       entries[i].isValid <=> WellFormedIdentifier(entries[i].number)
  /\ \A i \in 1..Len(exportRun.entries) :
       exportRun.entries[i].isValid <=>
         WellFormedIdentifier(exportRun.entries[i].number)

\* C4 witness: 0554739033 valid, 554739033 and 05547390330 invalid
C4_Witness ==
  \E i, j, k \in 1..Len(entries) :
    /\ entries[i].number = IdB /\ entries[i].isValid
    /\ entries[j].number = IdShort /\ ~entries[j].isValid
    /\ entries[k].number = IdLong /\ ~entries[k].isValid

\* C5: the records are in the order of the lines that produced them, and
\* record i is written to sheet row i + 1.
C5_OrderPreserved ==
  [][/\ TimerStep =>
          LET lines == SelectSeq(NormalizeLines(Head(timers)), ProducesRecord)
          IN  /\ Len(entries') = Len(lines)
              /\ \A i \in 1..Len(entries') :
                   LET line == lines[i]
                   IN  /\ entries'[i].number = Identifier(line)
                       /\ entries'[i].allocationGB =
                            ParseAllocation(SplitParts(line))
     /\ (~Exporting /\ exportRun'.pc = "writeBuffer") =>
          /\ Len(exportRun'.workbook.rows) = Len(entries) + 1
          /\ \A i \in 1..Len(entries) :
               /\ exportRun'.workbook.rows[i + 1][1] = entries[i].number
               /\ exportRun'.workbook.rows[i + 1][4] =
                    Times1024(entries[i].allocationGB)]_vars

\* C5 witness: an export of three records with different allocations, the
\* first and the last with the same identifier
C5_Witness ==
  /\ Exporting
  /\ Len(exportRun.entries) = 3
  /\ exportRun.entries[1].number = exportRun.entries[3].number
  /\ exportRun.entries[1].number # exportRun.entries[2].number
  /\ exportRun.entries[1].allocationGB # exportRun.entries[3].allocationGB
  /\ exportRun.workbook.rows[2][1] = exportRun.entries[1].number
  /\ exportRun.workbook.rows[4][4] = Times1024(exportRun.entries[3].allocationGB)

\* C6: a processing run always ends with isProcessing false and entries
\* set to records of lines of its text (none, if no line is valid), and
\* shows nothing but the duplicate advisory.
C6_ProcessingNeverFails ==
  [][TimerStep =>
       LET lines == NormalizeLines(Head(timers))
       IN  /\ isProcessing' = FALSE
           /\ Len(entries') <= Len(lines)
           /\ \A i \in 1..Len(entries') :
                \E k \in 1..Len(lines) :
                  entries'[i].number = Identifier(lines[k])
           /\ (alerts' = alerts \/ alerts'.kind = "duplicates")]_vars

\* C6 witness: a text with lines but no valid one has been processed
C6_Witness ==
  /\ timers = <<>>
  /\ NormalizeLines(inputText) # <<>>
  /\ entries = <<>>
  /\ ~isProcessing
  /\ alerts.kind = "none"

\* x >= 0
NonNegative(x) ==
  \/ x.kind = "inf" /\ ~x.neg
  \/ x.kind = "fin" /\ (~x.neg \/ x.mant = 0)

\* C7: every record has allocationGB >= 0.
C7_AllocationNonNegative ==
  \A i \in 1..Len(entries) : NonNegative(entries[i].allocationGB)

\* C7 witness: the record of the line "0201234567 -5GB"
C7_Witness ==
  \E i \in 1..Len(entries) :
    /\ entries[i].number = IdA
    /\ entries[i].allocationGB =
         [kind |-> "fin", neg |-> FALSE, mant |-> 5, exp |-> 0]
    /\ \E k \in 1..Len(NormalizeLines(inputText)) :
         \E c \in 1..Len(NormalizeLines(inputText)[k]) :
           NormalizeLines(inputText)[k][c] = "-"

\* C8: the sheet of an export of n records is the header row followed by
\* n data rows, one per record, each (identifier, "", 0,
\* allocationGB * 1024, 0).
C8_ExportFiltersNothing ==
  Exporting =>
    LET rows == exportRun.workbook.rows
        exported == exportRun.entries
    IN  /\ Len(exported) >= 1
        /\ Len(rows) = Len(exported) + 1
        /\ rows[1] = HeaderRow
        /\ \A i \in 1..Len(exported) :
             rows[i + 1] = <<exported[i].number, <<>>, 0,
                             Times1024(exported[i].allocationGB), 0>>

\* C8 witness: an export with an invalid and a duplicate record
C8_Witness ==
  /\ Exporting
  /\ \E i, j \in 1..Len(exportRun.entries) :
       /\ ~exportRun.entries[i].isValid
       /\ exportRun.entries[j].isDuplicate
       /\ exportRun.workbook.rows[i + 1][1] = exportRun.entries[i].number
       /\ exportRun.workbook.rows[j + 1][1] = exportRun.entries[j].number

\* mb is the finite number 1024 * x, digit for digit
ExactProduct(x, mb) ==
  /\ x.kind = "fin"
  /\ mb.kind = "fin"
  /\ mb.neg = x.neg
  /\ LET z == TrailingZeros(x.mant * MBPerGB)
     IN  /\ mb.mant * Pow10(z) = x.mant * MBPerGB
         /\ mb.exp = x.exp + z

\* 1024 * x is at most Number.MAX_VALUE
ProductInRange(x) ==
  LET m == x.mant * MBPerGB
      magnitude == NumDigits(m) - 1 + x.exp
  IN  \/ m = 0
      \/ magnitude < DoubleRange.maxExponent
      \/ /\ magnitude = DoubleRange.maxExponent
         /\ LeadingNine(m) <= DoubleRange.maxLeadingNine

C10_TotalsPlacement ==
  Exporting =>
    LET n == Len(exportRun.entries)
        totals == exportRun.workbook.totals
    IN  /\ n >= 1
        /\ totals.sumCell.row = (n + 1) + 5
        /\ totals.sumCell.formula =
             [fn |-> "SUM", col |-> "D", first |-> 2, last |-> n + 1]
        /\ totals.gbCell.row = totals.sumCell.row
        /\ <<totals.sumCell.col, totals.gbCell.col>> = <<"F", "G">>
        /\ totals.gbCell.formula =
             [refCol |-> totals.sumCell.col, refRow |-> totals.sumCell.row,
              dividedBy |-> 1024]

\* C10 witness: three records, SUM(D2:D4) at row 9
C10_Witness ==
  /\ Exporting
  /\ Len(exportRun.entries) = 3
  /\ exportRun.workbook.totals.sumCell.row = 9
  /\ exportRun.workbook.totals.sumCell.formula.last = 4

\* C11 as stated: an invalid record gets the red styling and never the
\* yellow fill, duplicate or not; a valid duplicate gets the yellow fill
\* with a bold font; a valid record that is no duplicate gets neither.
C11_StylingExclusive ==
  Exporting =>
    \A i \in 1..Len(exportRun.entries) :
      LET entry == exportRun.entries[i]
          style == exportRun.workbook.styles[i]
      IN  /\ ~entry.isValid =>
               style.font = "red-bold" /\ style.fill = "none"
          /\ (entry.isValid /\ entry.isDuplicate) =>
               style.fill = "yellow" /\ style.font = "bold"
          /\ (entry.isValid /\ ~entry.isDuplicate) =>
               style.fill = "none" /\ style.font = "default"

\* the length of the text a cell shows: a string cell shows its characters,
\* a number cell its decimal text
ShownLength(rows, r, c) ==
  IF r = 1 \/ c \in {1, 2} THEN Len(rows[r][c])
  ELSE IF c = 4 THEN NumberTextLength(rows[r][4])
  ELSE NumDigits(rows[r][c])

\* the largest text length over the non-empty cells of column c, 0 if none
LongestText(rows, c) ==
  LET lengths == {ShownLength(rows, r, c) : r \in 1..Len(rows)} \ {0}
  IN  IF lengths = {} THEN 0
      ELSE CHOOSE l \in lengths : \A k \in lengths : k <= l

\* C12: each of the five column widths of an exported sheet is
\* max(10, L) + 2, where L is the largest text length over the non-empty
\* cells of the column, header included; so every width is at least 12.
C12_ColumnWidths ==
  Exporting =>
    LET rows == exportRun.workbook.rows
        widths == exportRun.workbook.widths
    IN  /\ Len(widths) = 5
        /\ \A c \in 1..5 :
             /\ widths[c] =
                  (IF LongestText(rows, c) > 10 THEN LongestText(rows, c)
                   ELSE 10) + 2
             /\ widths[c] >= 12

\* an export whose first column is wider than its header asks for because an
\* identifier is longer, and whose last column has the least width
C12_Witness ==
  /\ Exporting
  /\ exportRun.workbook.widths[1] > Len(HeaderRow[1]) + 2
  /\ exportRun.workbook.widths[5] = 12

\* C13: an export asked for while entries is empty shows the "No data to
\* export" message, starts no export run and so yields no download, leaves
\* isExporting false, and changes neither entries nor inputText.
C13_EmptyExportRejected ==
  [][/\ (entries = <<>> /\ exportToExcel) =>
          /\ alerts' = NoDataAlert
          /\ UNCHANGED <<entries, inputText, isExporting, exportRun,
                         download>>
     /\ (entries = <<>> /\ ~isExporting) =>
          /\ ~isExporting'
          /\ ~Exporting'
          /\ download' = download
     /\ (alerts' = NoDataAlert /\ alerts # NoDataAlert) =>
          /\ entries = <<>>
          /\ UNCHANGED <<entries, inputText>>]_vars

\* a rejected export: the message is up, text has been typed, nothing was
\* ever downloaded and no export is running
C13_Witness ==
  /\ alerts = NoDataAlert
  /\ entries = <<>>
  /\ inputText # <<>>
  /\ ~isExporting
  /\ download = NoDownload

\* the step that ends an export run with the success message
ExportSucceeds == Exporting /\ ~Exporting' /\ alerts'.kind = "success"

\* the step that ends an export run with the failure message
ExportFails == Exporting /\ ~Exporting' /\ alerts'.kind = "error"

\* C14: the step that ends an export with the success message leaves entries
\* empty and inputText the empty string; an export asked for while the
\* success message is the last one shown and entries is still empty is
\* rejected as empty and downloads nothing.
C14_SuccessClears ==
  [][/\ ExportSucceeds => (entries' = <<>> /\ inputText' = <<>>)
     /\ (alerts.kind = "success" /\ entries = <<>> /\ exportToExcel) =>
          /\ alerts' = NoDataAlert
          /\ ~isExporting'
          /\ download' = download]_vars

\* a file was downloaded, and the export asked for after it was rejected:
\* nothing is left to export and nothing is pending
C14_Witness ==
  /\ download # NoDownload
  /\ alerts = NoDataAlert
  /\ entries = <<>>
  /\ inputText = <<>>
  /\ timers = <<>>
  /\ reads = {}

\* the step of an export that fails before it reaches writeBuffer
ExportFailsEarly ==
  ~Exporting /\ ~Exporting' /\ alerts' = ErrorAlert /\ alerts # ErrorAlert

\* C15: a step that ends an export with the failure message changes neither
\* entries nor inputText and leaves isExporting false, and an export asked
\* for after a failure takes the records entries still holds.
C15_FailureKeepsState ==
  [][/\ (ExportFails \/ ExportFailsEarly) =>
          /\ UNCHANGED <<entries, inputText>>
          /\ ~isExporting'
     /\ (alerts = ErrorAlert /\ entries # <<>> /\ exportToExcel) =>
          /\ Exporting'
          /\ exportRun'.entries = entries]_vars

\* the retry after a failed export is in flight with the records and the
\* text the failure left
C15_Witness ==
  /\ Exporting
  /\ alerts = ErrorAlert
  /\ exportRun.entries = entries
  /\ inputText # <<>>

\* C16: the step that ends an export run shows exactly one of the two
\* messages; with the failure message nothing is downloaded in that run,
\* and only with the success message is the run's workbook downloaded. An
\* export that fails before writeBuffer downloads nothing either.
C16_FailureReported ==
  [][/\ (Exporting /\ ~Exporting') =>
          \/ /\ alerts' = ErrorAlert
             /\ download' = download
          \/ /\ alerts' = SuccessAlert(exportRun.entries)
             /\ alerts' # ErrorAlert
             /\ download' = [name |-> "UploadTemplate.xlsx",
                             workbook |-> exportRun.workbook]
     /\ ExportFailsEarly => download' = download]_vars

\* the first export of a session has failed: the failure message is up and
\* nothing has been downloaded
C16_Witness ==
  /\ alerts = ErrorAlert
  /\ download = NoDownload
  /\ ~Exporting
  /\ ~isExporting
  /\ entries # <<>>

\* C17: isExporting is true exactly while an export run waits for
\* writeBuffer; no step but the end of the run touches the waiting run; and
\* once writeBuffer settles, every run that set isExporting ends with
\* isExporting false and the success or the failure message shown.
C17_ExportCompletes ==
  /\ [](isExporting <=> Exporting)
  /\ [][Exporting =>
          \/ exportRun' = exportRun /\ isExporting'
          \/ ExportSucceeds /\ ~isExporting'
          \/ ExportFails /\ ~isExporting']_vars
  /\ Exporting ~> (~isExporting /\ alerts.kind \in {"success", "error"})

\* a second export run is waiting for writeBuffer after the first one ended
\* with a download
C17_Witness ==
  /\ Exporting
  /\ isExporting
  /\ download # NoDownload

\* the tokens of every line of a list of lines
RECURSIVE TokensOfLines(_)
TokensOfLines(lines) ==
  IF lines = <<>> THEN <<>>
  ELSE <<SplitParts(Head(lines))>> \o TokensOfLines(Tail(lines))

\* the tokens are those of a line that produces a record
TokensGiveRecord(parts) == Len(parts) >= 2 /\ ~isNaN(ParseAllocation(parts))

\* the records of a text: one for each of its lines that produce a record,
\* with the identifier and allocation the line parses to and the flags the
\* text gives it
RecordsOf(text) ==
  LET kept == SelectSeq(TokensOfLines(NormalizeLines(text)), TokensGiveRecord)
  IN  [i \in 1..Len(kept) |->
         PhoneEntry(kept[i][1],
                    ParseAllocation(kept[i]),
                    validateNumber(kept[i][1]),
                    \E k \in 1..Len(kept) : k # i /\ kept[k][1] = kept[i][1])]

\* C18: whatever entries, inputText, alerts and exports came before, a
\* processing run installs the records of its own text and nothing else, so
\* two runs on the same text install the same records.
C18_RecordsFromTextAlone ==
  [][TimerStep => entries' = RecordsOf(Head(timers))]_vars

\* a processing run has installed the records of the current text in a
\* session that had exported other records before
C18_Witness ==
  /\ download # NoDownload
  /\ timers = <<>>
  /\ entries # <<>>
  /\ entries = RecordsOf(inputText)
  /\ Len(download.workbook.rows) # Len(entries) + 1

\* the first run of decimal digits of a token, empty if it has no digit
RECURSIVE FirstDigitRun(_)
FirstDigitRun(tok) ==
  IF tok = <<>> THEN <<>>
  ELSE IF Head(tok) \in DecimalDigits
       THEN SubSeq(tok, 1, DigitRunEnd(tok, 1) - 1)
  ELSE FirstDigitRun(Tail(tok))

\* the label C19 states for a line
FirstDigitRunLabel(line) ==
  LET parts == SplitTokens(line)
      run == IF Len(parts) >= 2 THEN FirstDigitRun(parts[2]) ELSE <<>>
  IN  IF run # <<>> THEN run \o <<" ", "G", "B">> ELSE Unknown

\* the non-empty trimmed lines of a text
TrimmedLines(text) ==
  LET raw == SplitLineFeedsFrom(text, 1, <<>>)
      kept == {i \in 1..Len(raw) : \E k \in 1..Len(raw[i]) :
                                     raw[i][k] \notin WhiteSpace}
  IN  [i \in kept |-> Trim(raw[i])]

\* the count the summary gives a label, 0 if it has no such bucket
CountOf(buckets, label) ==
  IF \E i \in 1..Len(buckets) : buckets[i].allocation = label
  THEN buckets[CHOOSE i \in 1..Len(buckets) :
                 buckets[i].allocation = label].count
  ELSE 0

\* C19 as stated: parseData counts every line under "<N> GB", N being the
\* first digit run of the line's second token, or under "Unknown" when that
\* token has no digit or is absent.
C19_LabelIsFirstDigitRun ==
  [][parseData =>
       LET lines == TrimmedLines(rawData)
       IN  \A i \in DOMAIN lines :
             CountOf(summary', FirstDigitRunLabel(lines[i])) =
               Cardinality({k \in DOMAIN lines :
                              FirstDigitRunLabel(lines[k]) =
                                FirstDigitRunLabel(lines[i])})]_vars

RECURSIVE SumOfCounts(_)
SumOfCounts(buckets) ==
  IF buckets = <<>> THEN 0
  ELSE Head(buckets).count + SumOfCounts(Tail(buckets))

\* C20: after parseData the counts of the summary add up to the number of
\* non-empty trimmed lines of the text, every count is at least 1, and no
\* label occurs in two buckets; the chart shows the same buckets.
C20_TallyOverAllLines ==
  [][parseData =>
       /\ SumOfCounts(summary') = Cardinality(DOMAIN TrimmedLines(rawData))
       /\ \A i \in 1..Len(summary') : summary'[i].count >= 1
       /\ \A i, k \in 1..Len(summary') :
            summary'[i].allocation = summary'[k].allocation => i = k
       /\ chartData' = summary']_vars

\* a summary with the "Unknown" bucket next to a digit bucket that holds two
\* lines or more
C20_Witness ==
  /\ rawData = <<>>
  /\ \E i \in 1..Len(summary) : summary[i].allocation = Unknown
  /\ \E i \in 1..Len(summary) :
       summary[i].allocation # Unknown /\ summary[i].count >= 2

\* the labels parseData gives the lines of a list, line by line
RECURSIVE LabelsOfLines(_)
LabelsOfLines(lines) ==
  IF lines = <<>> THEN <<>>
  ELSE <<BucketLabel(Head(lines))>> \o LabelsOfLines(Tail(lines))

\* the place of the first line with a label
FirstLineLabelled(labels, label) ==
  CHOOSE i \in 1..Len(labels) :
    labels[i] = label /\ \A k \in 1..(i - 1) : labels[k] # label

\* C21: in the summary parseData produces, a bucket stands before another
\* exactly when the first line of its label comes before the first line of
\* the other's label in the text.
C21_FirstSeenOrder ==
  [][parseData =>
       LET labels == LabelsOfLines(CategorizerLines(rawData))
       IN  \A i, k \in 1..Len(summary') :
             (i < k) <=>
               (FirstLineLabelled(labels, summary'[i].allocation) <
                  FirstLineLabelled(labels, summary'[k].allocation))]_vars

\* a summary of three buckets in an order that is neither that of the
\* numbers nor that of the alphabet: "25 GB", "Unknown", "10 GB"
C21_Witness ==
  /\ Len(summary) = 3
  /\ summary[1].allocation = <<"2", "5", " ", "G", "B">>
  /\ summary[2].allocation = Unknown
  /\ summary[3].allocation = <<"1", "0", " ", "G", "B">>

\* C22: when only files are dropped, entries always holds nothing or the
\* records of one single file; the read that completes sets inputText to
\* its file's text and queues its run behind the pending ones; and once no
\* read and no timer is pending, entries holds the records of inputText,
\* the text of the file read last.
C22_FilesNeverInterleave ==
  /\ [](entries = <<>> \/ \E f \in Files : entries = RecordsOf(FileText(f)))
  /\ [][\A f \in Files :
          (f \in reads /\ f \notin reads') =>
            /\ inputText' = FileText(f)
            /\ timers' = Append(timers, FileText(f))]_vars
  /\ []((reads = {} /\ timers = <<>>) => entries = RecordsOf(inputText))

\* both files have been read, the second one first: its records are in
\* entries while the run of the first file is still pending
C22_Witness ==
  /\ reads = {}
  /\ timers = <<FileText("f1")>>
  /\ inputText = FileText("f1")
  /\ entries = RecordsOf(FileText("f2"))

\* the identifiers that two or more record-producing lines of a text have
DuplicatedIdentifiers(text) ==
  LET kept == SelectSeq(TokensOfLines(NormalizeLines(text)), TokensGiveRecord)
  IN  {kept[i][1] : i \in {i \in 1..Len(kept) :
                             \E k \in 1..Len(kept) :
                               k # i /\ kept[k][1] = kept[i][1]}}

HasDuplicate(records) == \E i \in 1..Len(records) : records[i].isDuplicate

\* C23: a processing run shows the duplicate alert exactly when its text has
\* an identifier in two or more record-producing lines, and the alert lists
\* those identifiers, each once, and no other. Records flagged duplicate
\* enter entries only in a run that shows the alert with that step, and an
\* export takes the records entries holds, so the alert has come before any
\* export of a flagged record.
C23_DuplicateAdvisory ==
  [][/\ TimerStep =>
          LET dup == DuplicatedIdentifiers(Head(timers))
          IN  IF dup = {} THEN alerts' = alerts
              ELSE /\ alerts'.kind = "duplicates"
                   /\ {alerts'.duplicateList[i] :
                         i \in 1..Len(alerts'.duplicateList)} = dup
                   /\ Len(alerts'.duplicateList) = Cardinality(dup)
     /\ (HasDuplicate(entries') /\ entries' # entries) =>
          /\ TimerStep
          /\ alerts'.kind = "duplicates"
     /\ (~Exporting /\ Exporting') => exportRun'.entries = entries]_vars

\* an export of records flagged duplicate is in flight, and the alert of the
\* run that produced them is the last message shown
C23_Witness ==
  /\ Exporting
  /\ HasDuplicate(exportRun.entries)
  /\ alerts.kind = "duplicates"
  /\ alerts.duplicateList = <<IdA>>

\* the text with `before` put in front of every line ending (LF or CRLF)
\* and `after` behind it
RECURSIVE AroundLineEndings(_, _, _, _)
AroundLineEndings(text, i, before, after) ==
  IF i > Len(text) THEN <<>>
  ELSE IF text[i] = "\n"
       THEN before \o <<"\n">> \o after
              \o AroundLineEndings(text, i + 1, before, after)
  ELSE IF text[i] = "\r" /\ i < Len(text) /\ text[i + 1] = "\n"
       THEN before \o <<"\r", "\n">> \o after
              \o AroundLineEndings(text, i + 2, before, after)
  ELSE <<text[i]>> \o AroundLineEndings(text, i + 1, before, after)

\* the text with every line ending written as LF, and as CRLF
RECURSIVE WithLineEnding(_, _, _)
WithLineEnding(text, i, ending) ==
  IF i > Len(text) THEN <<>>
  ELSE IF text[i] = "\n"
       THEN ending \o WithLineEnding(text, i + 1, ending)
  ELSE IF text[i] = "\r" /\ i < Len(text) /\ text[i + 1] = "\n"
       THEN ending \o WithLineEnding(text, i + 2, ending)
  ELSE <<text[i]>> \o WithLineEnding(text, i + 1, ending)

\* the text with white space in front of and behind every line
PaddedLines(text) ==
  <<" ", "\t">> \o AroundLineEndings(text, 1, <<"\t">>, <<" ">>) \o <<" ">>

\* the text with an empty line in front, a line of white space behind every
\* line ending, and an empty line at the end
BlankLinesInserted(text) ==
  <<"\n">> \o AroundLineEndings(text, 1, <<>>, <<" ", "\t", "\n">>)
    \o <<"\r", "\n">>

\* C24: the records of a processing run (values, order and flags) are those
\* of its text with LF line endings, with CRLF line endings, with white
\* space around every line, and with blank and white-space lines inserted.
C24_LineNormalization ==
  [][TimerStep =>
       LET text == Head(timers)
       IN  /\ entries' = ProcessText(WithLineEnding(text, 1, <<"\n">>)).parsed
           /\ entries' =
                ProcessText(WithLineEnding(text, 1, <<"\r", "\n">>)).parsed
           /\ entries' = ProcessText(PaddedLines(text)).parsed
           /\ entries' = ProcessText(BlankLinesInserted(text)).parsed]_vars

\* a text of three lines ending in CRLF, one of them blank, has given two
\* records
C24_Witness ==
  /\ timers = <<>>
  /\ Len(entries) = 2
  /\ Len(SplitLines(inputText)) = 3
  /\ \E i \in 1..Len(inputText) : inputText[i] = "\r"
  /\ \E i \in 1..3 : Trim(SplitLines(inputText)[i]) = <<>>

\* C25 as stated: whenever no processing timer is pending and no export is
\* in flight, entries holds the records of the current inputText.
C25_QuiescentConsistency ==
  (timers = <<>> /\ ~Exporting) => entries = RecordsOf(inputText)

\* C26 as stated: at the step that ends an export with success and clears
\* entries and inputText, entries holds the records that were written to
\* the downloaded workbook.
C26_ClearsOnlyExported ==
  [][ExportSucceeds => entries = exportRun.entries]_vars

IdentifierDelimiters == WhiteSpace \cup {"-", "."}

\* the text a line starts with, up to its first delimiter
RECURSIVE LeadingText(_)
LeadingText(line) ==
  IF line = <<>> \/ Head(line) \in IdentifierDelimiters THEN <<>>
  ELSE <<Head(line)>> \o LeadingText(Tail(line))

\* C28 as stated: the identifier of every record a processing run produces
\* is not empty, holds no white space, hyphen or period, and is the text its
\* line starts with up to the first delimiter.
C28_IdentifierIsLeadingText ==
  [][TimerStep =>
       LET lines == NormalizeLines(Head(timers))
       IN  \A i \in 1..Len(entries') :
             /\ entries'[i].number # <<>>
             /\ \A k \in 1..Len(entries'[i].number) :
                  entries'[i].number[k] \notin IdentifierDelimiters
             /\ entries'[i].number =
                  LeadingText(lines[NthRecordLine(lines, i)])]_vars

\* the characters of a token in front of its first period
RECURSIVE BeforePoint(_)
BeforePoint(tok) ==
  IF tok = <<>> \/ Head(tok) = "." THEN <<>>
  ELSE <<Head(tok)>> \o BeforePoint(Tail(tok))

HasPeriod(tok) == \E k \in 1..Len(tok) : tok[k] = "."

\* a number without a fractional part
WholeNumber(x) == x.kind = "fin" => x.exp >= 0

CountRecords(records, valid, duplicate) ==
  Cardinality({i \in 1..Len(records) :
                 /\ records[i].isValid = valid
                 /\ records[i].isDuplicate = duplicate})

\* C30: the success message of an export shows, for the records exported,
\* their number as total, the number of records that are not valid as
\* invalid, the number of duplicates as duplicate and the number of valid
\* records that are no duplicates as valid; the three add up to the total
\* plus the number of records that are invalid and duplicate at once.
C30_SuccessCounts ==
  [][ExportSucceeds =>
       LET exported == exportRun.entries
           both == CountRecords(exported, FALSE, TRUE)
       IN  /\ alerts'.total = Len(exported)
           /\ alerts'.invalid = CountRecords(exported, FALSE, FALSE) + both
           /\ alerts'.duplicate = CountRecords(exported, TRUE, TRUE) + both
           /\ alerts'.valid = CountRecords(exported, TRUE, FALSE)
           /\ alerts'.valid + alerts'.duplicate + alerts'.invalid =
                alerts'.total + both
           /\ (alerts'.valid + alerts'.duplicate + alerts'.invalid =
                 alerts'.total) <=> (both = 0)]_vars

\* the message of an export of one valid record and two records that are
\* invalid and duplicate at once: the three counts exceed the total
C30_Witness ==
  /\ alerts.kind = "success"
  /\ alerts.total = 3
  /\ alerts.valid = 1
  /\ alerts.invalid = 2
  /\ alerts.duplicate = 2

====
